---- MODULE Spec2Model ----
(***************************************************************************)
(* Tomorrow Planner bot (src/bot.py) over its SQLite store (src/db.py).    *)
(*                                                                         *)
(* Text is a sequence of one-character strings, so that strip(), split(),  *)
(* int() and the HH:MM test are computed, not assumed.  Every handler runs *)
(* on a worker thread; one step of a handler is one store call (one SQLite *)
(* transaction), one reading of the clock, or one access to the shared     *)
(* user_states dictionary or to a shared EventCreationState object.        *)
(***************************************************************************)
EXTENDS Integers, Sequences, FiniteSets, Bags, TLC

VARIABLES
    events,       \* rows of table events
    seq_events,   \* AUTOINCREMENT high-water mark of events.id
    rsvp,         \* rows of table rsvp: a bag, the surrogate id left out
    now,          \* datetime.utcnow(), in whole seconds
    user_states,  \* dict user id -> reference to an EventCreationState (0: absent)
    heap,         \* the EventCreationState objects, by reference
    th            \* the worker threads: handler, position, locals, reply

vars == <<events, seq_events, rsvp, now, user_states, heap, th>>

(***************************************************************************)
(* Bounds                                                                  *)
(***************************************************************************)
\* dialogue input is delivered until this many events have been created
MaxEvents == 1
\* events an earlier run of the bot may have left in the store
MaxStored == 1
\* accepted inputs counted per dialogue (the count stops there)
MaxFed == 5
\* seconds the clock may advance
MaxClock == 1

Users == {1, 2}
\* the worker pool (telebot starts two workers)
Threads == {1, 2}
\* event ids a link or a button may carry: every id ever assigned and one never assigned
EventIds == 1..(MaxStored + 1)

(***************************************************************************)
(* Text                                                                    *)
(***************************************************************************)
\* the characters str.isspace() holds of, up to U+00FF: blank, \t, \n, \v, \f,
\* \r, the separators U+001C..U+001F, U+0085 and the no-break space
Whitespace ==
    {" ", "\t", "\n", "", "\f", "\r",
     "", "", "", "", "", " "}
Digits == {"0", "1", "2", "3", "4", "5", "6", "7", "8", "9"}

\* the whitespace int() skips around a number: the separators U+001C..U+001F
\* are none of it
IntWhitespace == Whitespace \ {"", "", "", ""}

\* s without the characters of chars it begins with
RECURSIVE lstrip_chars(_, _)
lstrip_chars(s, chars) ==
    IF s # <<>> /\ Head(s) \in chars THEN lstrip_chars(Tail(s), chars) ELSE s

\* s without the characters of chars it ends with
RECURSIVE rstrip_chars(_, _)
rstrip_chars(s, chars) ==
    IF s # <<>> /\ s[Len(s)] \in chars
    THEN rstrip_chars(SubSeq(s, 1, Len(s) - 1), chars)
    ELSE s

lstrip(s) == lstrip_chars(s, Whitespace)

rstrip(s) == rstrip_chars(s, Whitespace)

\* str.strip()
strip(s) == rstrip(lstrip(s))

\* the characters str.isdigit() holds of, up to U+00FF: the decimal digits and
\* the superscripts two, three and one
DigitChars == Digits \cup {"²", "³", "¹"}

\* str.isdigit(): non-empty and every character a digit
isdigit(s) == s # <<>> /\ \A i \in 1..Len(s) : s[i] \in DigitChars

\* str.replace(c, "") for a one-character c
RECURSIVE remove_char(_, _)
remove_char(s, c) ==
    IF s = <<>> THEN <<>>
    ELSE IF Head(s) = c THEN remove_char(Tail(s), c)
    ELSE <<Head(s)>> \o remove_char(Tail(s), c)

\* str.startswith(p)
startswith(s, p) == Len(s) >= Len(p) /\ SubSeq(s, 1, Len(p)) = p

\* index of the first c in s, 0 when there is none
RECURSIVE find_char(_, _, _)
find_char(s, c, i) ==
    IF i > Len(s) THEN 0
    ELSE IF s[i] = c THEN i
    ELSE find_char(s, c, i + 1)

\* str.split(c): every field between separators
RECURSIVE split_all(_, _)
split_all(s, c) ==
    LET i == find_char(s, c, 1) IN
    IF i = 0 THEN <<s>>
    ELSE <<SubSeq(s, 1, i - 1)>> \o split_all(SubSeq(s, i + 1, Len(s)), c)

\* str.split(c, maxsplit=1)
split_once(s, c) ==
    LET i == find_char(s, c, 1) IN
    IF i = 0 THEN <<s>>
    ELSE <<SubSeq(s, 1, i - 1), SubSeq(s, i + 1, Len(s))>>

DigitValue(c) ==
    CASE c = "0" -> 0 [] c = "1" -> 1 [] c = "2" -> 2 [] c = "3" -> 3
      [] c = "4" -> 4 [] c = "5" -> 5 [] c = "6" -> 6 [] c = "7" -> 7
      [] c = "8" -> 8 [] c = "9" -> 9

\* digits with single underscores between them, as int() accepts
RECURSIVE int_body_ok(_, _)
int_body_ok(s, prev_digit) ==
    IF s = <<>> THEN prev_digit
    ELSE IF Head(s) \in Digits THEN int_body_ok(Tail(s), TRUE)
    ELSE IF Head(s) = "_" THEN prev_digit /\ Tail(s) # <<>>
                               /\ Head(Tail(s)) \in Digits
                               /\ int_body_ok(Tail(s), FALSE)
    ELSE FALSE

RECURSIVE int_digits(_, _)
int_digits(s, acc) ==
    IF s = <<>> THEN acc
    ELSE IF Head(s) = "_" THEN int_digits(Tail(s), acc)
    ELSE int_digits(Tail(s), 10 * acc + DigitValue(Head(s)))

\* int(s): surrounding whitespace, an optional sign, decimal digits.
\* ok = FALSE stands for ValueError.
int_parse(s) ==
    LET t == rstrip_chars(lstrip_chars(s, IntWhitespace), IntWhitespace)
        signed == t # <<>> /\ Head(t) \in {"+", "-"}
        body == IF signed THEN Tail(t) ELSE t
        good == int_body_ok(body, FALSE)
        mag == IF good THEN int_digits(body, 0) ELSE 0
    IN [ok |-> good,
        value |-> IF signed /\ Head(t) = "-" THEN 0 - mag ELSE mag]

\* str(n) for an integer
RECURSIVE nat_str(_)
nat_str(n) ==
    LET d == <<"0", "1", "2", "3", "4", "5", "6", "7", "8", "9">>[(n % 10) + 1] IN
    IF n < 10 THEN <<d>> ELSE nat_str(n \div 10) \o <<d>>

int_str(n) == IF n < 0 THEN <<"-">> \o nat_str(0 - n) ELSE nat_str(n)

YES == <<"y", "e", "s">>
NO == <<"n", "o">>
MAYBE == <<"m", "a", "y", "b", "e">>
Statuses == {YES, NO, MAYBE}

LowerChar(c) ==
    CASE c = "Y" -> "y" [] c = "E" -> "e" [] c = "S" -> "s" [] c = "N" -> "n"
      [] c = "O" -> "o" [] c = "M" -> "m" [] c = "A" -> "a" [] c = "B" -> "b"
      [] OTHER -> c

\* str.lower()
lower(s) == [i \in 1..Len(s) |-> LowerChar(s[i])]

(***************************************************************************)
(* View renderer (bot.py)                                                  *)
(***************************************************************************)
RECURSIVE escape_html(_)
escape_html(s) ==
    IF s = <<>> THEN <<>>
    ELSE (CASE Head(s) = "&" -> <<"&", "a", "m", "p", ";">>
            [] Head(s) = "<" -> <<"&", "l", "t", ";">>
            [] Head(s) = ">" -> <<"&", "g", "t", ";">>
            [] OTHER -> <<Head(s)>>) \o escape_html(Tail(s))

UpperChar(c) ==
    CASE c = "y" -> "Y" [] c = "n" -> "N" [] c = "m" -> "M" [] OTHER -> c

\* str.title() of a one-word text
title_case(s) ==
    IF s = <<>> THEN <<>> ELSE <<UpperChar(Head(s))>> \o lower(Tail(s))

\* the bot's user name, as bot.get_me() reports it
BotUsername == <<"b", "o", "t">>

StartParamPrefix == <<"j", "o", "i", "n", "_">>

\* get_invite_link with a dash where handle_start looks for an underscore
get_invite_link_dash(event_id) ==
    <<"h", "t", "t", "p", "s", ":", "/", "/", "t", ".", "m", "e", "/">>
        \o BotUsername \o <<"?", "s", "t", "a", "r", "t", "=">>
        \o <<"j", "o", "i", "n", "-">> \o int_str(event_id)

\* f"https://t.me/{username}?start=join_{event_id}"
get_invite_link(event_id) ==
    <<"h", "t", "t", "p", "s", ":", "/", "/", "t", ".", "m", "e", "/">>
        \o BotUsername \o <<"?", "s", "t", "a", "r", "t", "=">>
        \o StartParamPrefix \o int_str(event_id)

NotSet == <<"N", "o", "t", " ", "s", "e", "t">>

CountOf(counts, k) == IF k \in DOMAIN counts THEN counts[k] ELSE 0

\* the lines of the rendered text, one field per line
build_event_text(event, user_status, counts, include_invite) ==
    [title |-> escape_html(event.title),
     type |-> escape_html(event.type),
     time |-> escape_html(event.time),
     location |-> escape_html(event.location),
     yes |-> CountOf(counts, YES),
     no |-> CountOf(counts, NO),
     maybe |-> CountOf(counts, MAYBE),
     status_text |-> IF user_status = <<>> THEN NotSet ELSE title_case(user_status),
     invite |-> IF include_invite THEN escape_html(get_invite_link(event.id)) ELSE <<>>]

NoText ==
    [title |-> <<>>, type |-> <<>>, time |-> <<>>, location |-> <<>>,
     yes |-> 0, no |-> 0, maybe |-> 0, status_text |-> <<>>, invite |-> <<>>]

(***************************************************************************)
(* Store (db.py).  Each operator is one call: one SQLite transaction.      *)
(***************************************************************************)
\* fetchone() of an empty result
NoEvent ==
    [id |-> 0, user_id |-> 0, title |-> <<>>, type |-> <<>>, time |-> <<>>,
     location |-> <<>>, created_at |-> 0]

NoRsvp == [event_id |-> 0, user_id |-> 0, status |-> <<>>, updated_at |-> 0]

\* the rows of table rsvp, and those of one event or of one (event, user) pair
RsvpRows == BagToSet(rsvp)
RsvpOf(event_id) == {r \in RsvpRows : r.event_id = event_id}
RsvpOfPair(event_id, user_id) == {r \in RsvpOf(event_id) : r.user_id = user_id}

\* the rows of a bag that satisfy keep
Restrict(bag, keep(_)) == [r \in {x \in DOMAIN bag : keep(x)} |-> bag[r]]

\* create_event with the values of type and location bound to each other's column
create_event_swapped(user_id, title, event_type, time, location, stamp) ==
    LET row == [id |-> seq_events + 1, user_id |-> user_id, title |-> title,
                type |-> location, time |-> time, location |-> event_type,
                created_at |-> stamp]
    IN [lastrowid |-> row.id, events |-> events \cup {row}, seq_events |-> row.id]

\* create_event on a table whose id is INTEGER PRIMARY KEY without AUTOINCREMENT:
\* the id is one more than the largest id in the table
create_event_rowid(user_id, title, event_type, time, location, stamp) ==
    LET ids == {e.id : e \in events}
        largest == IF ids = {} THEN 0 ELSE CHOOSE i \in ids : \A j \in ids : j <= i
        row == [id |-> largest + 1, user_id |-> user_id, title |-> title,
                type |-> event_type, time |-> time, location |-> location,
                created_at |-> stamp]
    IN [lastrowid |-> row.id, events |-> events \cup {row},
        seq_events |-> IF row.id > seq_events THEN row.id ELSE seq_events]

\* INSERT INTO events: the id is one more than every id assigned before.  stamp
\* is the local now, read from the clock before the connection is opened.
create_event(user_id, title, event_type, time, location, stamp) ==
    LET row == [id |-> seq_events + 1, user_id |-> user_id, title |-> title,
                type |-> event_type, time |-> time, location |-> location,
                created_at |-> stamp]
    IN [lastrowid |-> row.id, events |-> events \cup {row}, seq_events |-> row.id]

\* delete_event on a connection that never set PRAGMA foreign_keys: no cascade
delete_event_no_cascade(event_id, user_id) ==
    LET gone == {e \in events : e.id = event_id /\ e.user_id = user_id} IN
    [deleted |-> gone # {}, events |-> events \ gone, rsvp |-> rsvp]

\* delete_event whose WHERE clause leaves out the requester
delete_event_any(event_id, user_id) ==
    LET gone == {e \in events : e.id = event_id} IN
    [deleted |-> gone # {},
     events |-> events \ gone,
     rsvp |-> Restrict(rsvp, LAMBDA r : r.event_id \notin {e.id : e \in gone})]

\* DELETE FROM events WHERE id = ? AND user_id = ?, with ON DELETE CASCADE on rsvp
delete_event(event_id, user_id) ==
    LET gone == {e \in events : e.id = event_id /\ e.user_id = user_id} IN
    [deleted |-> gone # {},
     events |-> events \ gone,
     rsvp |-> Restrict(rsvp, LAMBDA r : r.event_id \notin {e.id : e \in gone})]

\* SELECT * FROM events WHERE user_id = ? ORDER BY created_at DESC.  SQL leaves
\* the order of rows of equal created_at open; SQLite gives them as it scans the
\* table, by ascending id.
RECURSIVE ordered_by_created_at(_)
ordered_by_created_at(rows) ==
    IF rows = {} THEN <<>>
    ELSE LET first == CHOOSE e \in rows : \A x \in rows :
                          \/ e.created_at > x.created_at
                          \/ e.created_at = x.created_at /\ e.id <= x.id
         IN <<first>> \o ordered_by_created_at(rows \ {first})

get_events_by_user(user_id) ==
    ordered_by_created_at({e \in events : e.user_id = user_id})

get_event(event_id) ==
    IF \E e \in events : e.id = event_id
    THEN CHOOSE e \in events : e.id = event_id
    ELSE NoEvent

\* upsert_rsvp as a plain INSERT into a table without the UNIQUE constraint
upsert_rsvp_insert(event_id, user_id, status, stamp) ==
    IF \A e \in events : e.id # event_id
    THEN [ok |-> FALSE, rsvp |-> rsvp]
    ELSE [ok |-> TRUE,
          rsvp |-> rsvp (+) SetToBag({[event_id |-> event_id, user_id |-> user_id,
                                       status |-> status, updated_at |-> stamp]})]

\* upsert_rsvp with ON CONFLICT DO NOTHING
upsert_rsvp_keep(event_id, user_id, status, stamp) ==
    IF RsvpOfPair(event_id, user_id) # {}
    THEN [ok |-> TRUE, rsvp |-> rsvp]
    ELSE IF \A e \in events : e.id # event_id
    THEN [ok |-> FALSE, rsvp |-> rsvp]
    ELSE [ok |-> TRUE,
          rsvp |-> rsvp (+) SetToBag({[event_id |-> event_id, user_id |-> user_id,
                                       status |-> status, updated_at |-> stamp]})]

\* INSERT ... ON CONFLICT(event_id, user_id) DO UPDATE, under foreign_keys = ON.
\* ok = FALSE stands for sqlite3.IntegrityError (no such event): nothing is written.
\* stamp is the local now, read from the clock before the connection is opened.
upsert_rsvp(event_id, user_id, status, stamp) ==
    LET hit(r) == r.event_id = event_id /\ r.user_id = user_id IN
    IF RsvpOfPair(event_id, user_id) # {}
    THEN [ok |-> TRUE,
          rsvp |-> BagOfAll(LAMBDA r : IF hit(r)
                                       THEN [r EXCEPT !.status = status,
                                                      !.updated_at = stamp]
                                       ELSE r,
                            rsvp)]
    ELSE IF \A e \in events : e.id # event_id
    THEN [ok |-> FALSE, rsvp |-> rsvp]
    ELSE [ok |-> TRUE,
          rsvp |-> rsvp (+) SetToBag({[event_id |-> event_id, user_id |-> user_id,
                                       status |-> status, updated_at |-> stamp]})]

get_rsvp(event_id, user_id) ==
    IF RsvpOfPair(event_id, user_id) # {}
    THEN CHOOSE r \in RsvpOfPair(event_id, user_id) : TRUE
    ELSE NoRsvp

\* get_rsvp_counts without the {"yes": 0, "no": 0, "maybe": 0} it starts from
get_rsvp_counts_sparse(event_id) ==
    LET groups == {r.status : r \in RsvpOf(event_id)}
        total(g) == BagCardinality(
                        Restrict(rsvp, LAMBDA r : r.event_id = event_id /\ r.status = g))
    IN [k \in {lower(g) : g \in groups} |->
          total(CHOOSE g \in groups : lower(g) = k)]

\* SELECT status, COUNT(*) ... GROUP BY status, laid over {"yes": 0, "no": 0, "maybe": 0}
get_rsvp_counts(event_id) ==
    LET groups == {r.status : r \in RsvpOf(event_id)}
        total(g) == BagCardinality(
                        Restrict(rsvp, LAMBDA r : r.event_id = event_id /\ r.status = g))
        keys == Statuses \cup {lower(g) : g \in groups}
    IN [k \in keys |->
          IF \E g \in groups : lower(g) = k
          THEN total(CHOOSE g \in groups : lower(g) = k)
          ELSE 0]

(***************************************************************************)
(* Conversation state (bot.py)                                             *)
(***************************************************************************)
\* EventCreationState.steps
steps == <<"title", "location", "type", "time">>

DEFAULT_TIME_TEXT ==
    <<"T", "o", "m", "o", "r", "r", "o", "w", " ", "1", "9", ":", "0", "0">>

TomorrowPrefix == <<"T", "o", "m", "o", "r", "r", "o", "w", " ">>

\* references to EventCreationState objects: one per dictionary entry and one per
\* handler that still holds an object the dictionary has dropped
Refs == 1..(Cardinality(Users) + Cardinality(Threads))

EmptyData == [k \in {} |-> <<>>]

\* a slot of the heap holding no object
Free == [step_index |-> -1, data |-> EmptyData, fed |-> 0, inputs |-> EmptyData,
         made |-> {}, dropped |-> ""]

\* EventCreationState(): step_index = 0, data = {}.  The other fields are history,
\* read by no handler: fed counts the inputs accepted on this object (up to
\* MaxFed), inputs holds the last message accepted at each step, made the rows
\* finish_event_creation inserted from it, dropped the command ("cancel" or
\* "new") that took the object out of user_states.
EventCreationState ==
    [step_index |-> 0, data |-> EmptyData, fed |-> 0, inputs |-> EmptyData,
     made |-> {}, dropped |-> ""]

\* the objects, with the one a command takes out of user_states noted as such
Dropped(hp, o, command) ==
    IF o = 0 THEN hp ELSE [hp EXCEPT ![o].dropped = command]

\* data[key] = value
dict_set(data, key, value) ==
    [k \in (DOMAIN data) \cup {key} |-> IF k = key THEN value ELSE data[k]]

(***************************************************************************)
(* Worker threads                                                          *)
(***************************************************************************)
NoMessage == [content_type |-> "", text |-> <<>>, lat |-> 0, lon |-> 0]
NoReply == [msg |-> "", text |-> NoText]
NoCounts == [k \in Statuses |-> 0]

Idle ==
    [pc |-> "idle", handler |-> "", user |-> 0, event_id |-> 0, status |-> <<>>,
     message |-> NoMessage, event |-> NoEvent, rsvp_status |-> <<>>,
     counts |-> NoCounts, state |-> 0, step |-> "", value |-> <<>>, tmp |-> 0,
     args |-> EmptyData, listing |-> <<>>, now |-> 0,
     reply |-> NoReply, error |-> ""]

\* an update goes to an idle worker: the first one, the workers being alike
Ready(t) == th[t].pc = "idle" /\ \A w \in Threads : w < t => th[w].pc # "idle"

Begin(handler, user) == [Idle EXCEPT !.handler = handler, !.user = user]

\* the handler returns after answering msg (with a rendered text, if any)
Answer(r, msg, text) ==
    [Idle EXCEPT !.pc = "done", !.handler = r.handler, !.user = r.user,
                 !.event_id = r.event_id, !.reply = [msg |-> msg, text |-> text]]

\* the handler ends with an uncaught exception
Raise(r, error) ==
    [Idle EXCEPT !.pc = "raised", !.handler = r.handler, !.user = r.user,
                 !.event_id = r.event_id, !.error = error]

\* A reference means nothing but the object it leads to.  The objects are
\* numbered in the order in which user_states and then the handlers lead to
\* them; an object that neither leads to is collected.
Roots(us, ths) ==
    [i \in 1..(Cardinality(Users) + Cardinality(Threads)) |->
        IF i <= Cardinality(Users) THEN us[i] ELSE ths[i - Cardinality(Users)].state]

Renumbered(us, ths, o) ==
    LET roots == Roots(us, ths)
        first == CHOOSE j \in DOMAIN roots :
                    roots[j] = o /\ \A k \in DOMAIN roots : roots[k] = o => j <= k
    IN IF o = 0 THEN 0
       ELSE Cardinality({roots[j] : j \in 1..first} \ {0})

\* the dictionary, the workers and the objects after a step of the dialogue
Commit(us, ths, hp) ==
    LET live == {us[u] : u \in Users} \cup {ths[t].state : t \in Threads} IN
    /\ user_states' = [u \in Users |-> Renumbered(us, ths, us[u])]
    /\ th' = [t \in Threads |->
                [ths[t] EXCEPT !.state = Renumbered(us, ths, ths[t].state)]]
    /\ heap' = [n \in Refs |->
                IF \E o \in live \ {0} : Renumbered(us, ths, o) = n
                THEN hp[CHOOSE o \in live \ {0} : Renumbered(us, ths, o) = n]
                ELSE Free]

\* the reference a new object gets
NewRef == CHOOSE o \in Refs : heap[o] = Free

StoreUnchanged == UNCHANGED <<events, seq_events, rsvp, now>>
DialogueUnchanged == UNCHANGED <<user_states, heap>>

Init ==
    /\ events = {}
    /\ seq_events = 0
    /\ rsvp = EmptyBag
    /\ now = 0
    /\ user_states = [u \in Users |-> 0]
    /\ heap = [o \in Refs |-> Free]
    /\ th = [t \in Threads |-> Idle]

(***************************************************************************)
(* /start and the invite link (bot.py: handle_start, handle_join_event)    *)
(***************************************************************************)
\* str.split(): the fields between runs of whitespace
RECURSIVE split_ws(_)
split_ws(s) ==
    LET t == lstrip(s)
        ws == {i \in 1..Len(t) : t[i] \in Whitespace}
        i == IF ws = {} THEN 0 ELSE CHOOSE j \in ws : \A k \in ws : j <= k
    IN IF t = <<>> THEN <<>>
       ELSE IF i = 0 THEN <<t>>
       ELSE <<SubSeq(t, 1, i - 1)>> \o split_ws(SubSeq(t, i + 1, Len(t)))

\* handle_start down to the first store call of handle_join_event
handle_start(t, user, chat_type, text) ==
    LET parts == split_ws(text)
        r == Begin("start", user)
    IN
    /\ Ready(t)
    /\ IF Len(parts) > 1 /\ startswith(parts[2], StartParamPrefix)
       THEN LET parsed == int_parse(split_once(parts[2], "_")[2]) IN
            IF ~parsed.ok
            THEN th' = [th EXCEPT ![t] = Answer(r, "Invalid invitation link.", NoText)]
            ELSE IF chat_type # "private"
            THEN th' = [th EXCEPT ![t] =
                    Answer([r EXCEPT !.event_id = parsed.value],
                           "Please message me privately to join this event.", NoText)]
            ELSE th' = [th EXCEPT ![t] =
                    [r EXCEPT !.pc = "join_get_event", !.event_id = parsed.value]]
       ELSE th' = [th EXCEPT ![t] = Answer(r, "Hi! I'm Tomorrow Planner.", NoText)]
    /\ StoreUnchanged
    /\ DialogueUnchanged

\* event = db.get_event(event_id)
JoinGetEvent(t) ==
    LET r == th[t]
        event == get_event(r.event_id)
    IN
    /\ r.pc = "join_get_event"
    /\ IF event = NoEvent
       THEN th' = [th EXCEPT ![t] = Answer(r, "Event not found or already deleted.", NoText)]
       ELSE th' = [th EXCEPT ![t] = [r EXCEPT !.pc = "join_get_rsvp", !.event = event]]
    /\ StoreUnchanged
    /\ DialogueUnchanged

\* rsvp_row = db.get_rsvp(event_id, user_id); status = its status, or "maybe"
JoinGetRsvp(t) ==
    LET r == th[t]
        rsvp_row == get_rsvp(r.event_id, r.user)
    IN
    /\ r.pc = "join_get_rsvp"
    /\ IF rsvp_row = NoRsvp
       THEN th' = [th EXCEPT ![t] = [r EXCEPT !.pc = "join_now", !.status = MAYBE]]
       ELSE th' = [th EXCEPT ![t] =
               [r EXCEPT !.pc = "join_counts", !.status = rsvp_row.status]]
    /\ StoreUnchanged
    /\ DialogueUnchanged

\* if not rsvp_row: db.upsert_rsvp reads the clock
JoinNow(t) ==
    LET r == th[t] IN
    /\ r.pc = "join_now"
    /\ th' = [th EXCEPT ![t] = [r EXCEPT !.pc = "join_upsert", !.now = now]]
    /\ StoreUnchanged
    /\ DialogueUnchanged

\* db.upsert_rsvp(event_id, user_id, status): the connection and the statement
JoinUpsert(t) ==
    LET r == th[t]
        res == upsert_rsvp(r.event_id, r.user, r.status, r.now)
    IN
    /\ r.pc = "join_upsert"
    /\ rsvp' = res.rsvp
    /\ IF res.ok
       THEN th' = [th EXCEPT ![t] = [r EXCEPT !.pc = "join_counts", !.now = 0]]
       ELSE th' = [th EXCEPT ![t] = Raise(r, "IntegrityError")]
    /\ UNCHANGED <<events, seq_events, now>>
    /\ DialogueUnchanged

\* counts = db.get_rsvp_counts(event_id); the invitation is sent
JoinCounts(t) ==
    LET r == th[t]
        counts == get_rsvp_counts(r.event_id)
    IN
    /\ r.pc = "join_counts"
    /\ th' = [th EXCEPT ![t] =
            Answer(r, "You're invited to an event for tomorrow!",
                   build_event_text(r.event, r.status, counts, FALSE))]
    /\ StoreUnchanged
    /\ DialogueUnchanged

(***************************************************************************)
(* Button presses (bot.py: handle_callbacks and the three callbacks)       *)
(***************************************************************************)
ViewPrefix == <<"v", "i", "e", "w", ":">>
DeletePrefix == <<"d", "e", "l", "e", "t", "e", ":">>
RsvpPrefix == <<"r", "s", "v", "p", ":">>

\* callback_data of the buttons
Payload(prefix, n) == prefix \o int_str(n)
RsvpPayload(n, status) == RsvpPrefix \o int_str(n) \o <<":">> \o status

\* user_has_access that admits whoever holds the event's id
user_has_access_open(event_row, user_id) ==
    event_row.id \in EventIds

\* user_has_access that admits anyone once the event has an RSVP row
user_has_access_any_row(event_row, user_id) ==
    \/ event_row.user_id = user_id
    \/ RsvpOf(event_row.id) # {}

\* handle_rsvp_callback without its test of the status
known_status_any(status) == TRUE

\* handle_rsvp_callback: status in {"yes", "no", "maybe"}
known_status(status) == status \in Statuses

\* user_has_access, when the event's row is in hand: the organizer passes without
\* a store call, anyone else by db.get_rsvp
user_has_access(event_row, user_id) ==
    \/ event_row.user_id = user_id
    \/ get_rsvp(event_row.id, user_id) # NoRsvp

\* handle_callbacks down to the first store call of the callback it routes to
handle_callbacks(t, user, data) ==
    LET r == Begin("callback", user) IN
    /\ Ready(t)
    /\ IF startswith(data, ViewPrefix)
       THEN LET parsed == int_parse(split_once(data, ":")[2]) IN
            IF ~parsed.ok
            THEN th' = [th EXCEPT ![t] =
                    Answer([r EXCEPT !.handler = "view"], "Invalid event id.", NoText)]
            ELSE th' = [th EXCEPT ![t] =
                    [r EXCEPT !.handler = "view", !.pc = "view_get_event",
                              !.event_id = parsed.value]]
       ELSE IF startswith(data, DeletePrefix)
       THEN LET parsed == int_parse(split_once(data, ":")[2]) IN
            IF ~parsed.ok
            THEN th' = [th EXCEPT ![t] =
                    Answer([r EXCEPT !.handler = "delete"], "Invalid event id.", NoText)]
            ELSE th' = [th EXCEPT ![t] =
                    [r EXCEPT !.handler = "delete", !.pc = "delete_get_event",
                              !.event_id = parsed.value]]
       ELSE IF startswith(data, RsvpPrefix)
       THEN LET parts == split_all(data, ":")
                parsed == int_parse(parts[2])
                rr == [r EXCEPT !.handler = "rsvp"]
            IN
            IF Len(parts) # 3
            THEN th' = [th EXCEPT ![t] = Answer(rr, "Invalid RSVP data.", NoText)]
            ELSE IF ~parsed.ok
            THEN th' = [th EXCEPT ![t] = Answer(rr, "Invalid RSVP data.", NoText)]
            \* handle_rsvp_callback: if status not in {"yes", "no", "maybe"}
            ELSE IF ~known_status(parts[3])
            THEN th' = [th EXCEPT ![t] =
                    Answer([rr EXCEPT !.event_id = parsed.value, !.status = parts[3]],
                           "Unknown option.", NoText)]
            ELSE th' = [th EXCEPT ![t] =
                    [rr EXCEPT !.pc = "rsvp_get_event", !.event_id = parsed.value,
                               !.status = parts[3]]]
       ELSE th' = [th EXCEPT ![t] = Answer(r, "", NoText)]
    /\ StoreUnchanged
    /\ DialogueUnchanged

\* handle_view_callback: event = db.get_event(event_id)
ViewGetEvent(t) ==
    LET r == th[t]
        event == get_event(r.event_id)
    IN
    /\ r.pc = "view_get_event"
    /\ IF event = NoEvent
       THEN th' = [th EXCEPT ![t] = Answer(r, "Event not found.", NoText)]
       ELSE th' = [th EXCEPT ![t] = [r EXCEPT !.pc = "view_access", !.event = event]]
    /\ StoreUnchanged
    /\ DialogueUnchanged

\* handle_view_callback: if not user_has_access(event, user)
ViewAccess(t) ==
    LET r == th[t] IN
    /\ r.pc = "view_access"
    /\ IF user_has_access(r.event, r.user)
       THEN th' = [th EXCEPT ![t] = [r EXCEPT !.pc = "view_counts"]]
       ELSE th' = [th EXCEPT ![t] =
               Answer(r, "You do not have access to this event.", NoText)]
    /\ StoreUnchanged
    /\ DialogueUnchanged

\* handle_view_callback: counts = db.get_rsvp_counts(event_id)
ViewCounts(t) ==
    LET r == th[t]
        counts == get_rsvp_counts(r.event_id)
    IN
    /\ r.pc = "view_counts"
    /\ th' = [th EXCEPT ![t] =
            [r EXCEPT !.pc = "view_get_rsvp", !.counts = counts]]
    /\ StoreUnchanged
    /\ DialogueUnchanged

\* handle_view_callback: rsvp_row = db.get_rsvp(event_id, user); the view is sent
ViewGetRsvp(t) ==
    LET r == th[t]
        rsvp_row == get_rsvp(r.event_id, r.user)
    IN
    /\ r.pc = "view_get_rsvp"
    /\ th' = [th EXCEPT ![t] =
            Answer(r, "view",
                   build_event_text(r.event, rsvp_row.status, r.counts,
                                    r.event.user_id = r.user))]
    /\ StoreUnchanged
    /\ DialogueUnchanged

\* handle_delete_callback: event = db.get_event(event_id) and the ownership test
DeleteGetEvent(t) ==
    LET r == th[t]
        event == get_event(r.event_id)
    IN
    /\ r.pc = "delete_get_event"
    /\ IF event = NoEvent \/ event.user_id # r.user
       THEN th' = [th EXCEPT ![t] =
               Answer(r, "You can only delete your own events.", NoText)]
       ELSE th' = [th EXCEPT ![t] = [r EXCEPT !.pc = "delete_delete", !.event = event]]
    /\ StoreUnchanged
    /\ DialogueUnchanged

\* handle_delete_callback: deleted = db.delete_event(event_id, user)
DeleteDelete(t) ==
    LET r == th[t]
        res == delete_event(r.event_id, r.user)
    IN
    /\ r.pc = "delete_delete"
    /\ events' = res.events
    /\ rsvp' = res.rsvp
    /\ IF res.deleted
       THEN th' = [th EXCEPT ![t] = Answer(r, "Event deleted.", NoText)]
       ELSE th' = [th EXCEPT ![t] = Answer(r, "Event not found.", NoText)]
    /\ UNCHANGED <<seq_events, now>>
    /\ DialogueUnchanged

\* handle_rsvp_callback: event = db.get_event(event_id)
RsvpGetEvent(t) ==
    LET r == th[t]
        event == get_event(r.event_id)
    IN
    /\ r.pc = "rsvp_get_event"
    /\ IF event = NoEvent
       THEN th' = [th EXCEPT ![t] = Answer(r, "Event not found.", NoText)]
       ELSE th' = [th EXCEPT ![t] = [r EXCEPT !.pc = "rsvp_access", !.event = event]]
    /\ StoreUnchanged
    /\ DialogueUnchanged

\* handle_rsvp_callback: if not user_has_access(event, user)
RsvpAccess(t) ==
    LET r == th[t] IN
    /\ r.pc = "rsvp_access"
    /\ IF user_has_access(r.event, r.user)
       THEN th' = [th EXCEPT ![t] = [r EXCEPT !.pc = "rsvp_now"]]
       ELSE th' = [th EXCEPT ![t] = Answer(r, "Join via the invite link first.", NoText)]
    /\ StoreUnchanged
    /\ DialogueUnchanged

\* handle_rsvp_callback: db.upsert_rsvp reads the clock
RsvpNow(t) ==
    LET r == th[t] IN
    /\ r.pc = "rsvp_now"
    /\ th' = [th EXCEPT ![t] = [r EXCEPT !.pc = "rsvp_upsert", !.now = now]]
    /\ StoreUnchanged
    /\ DialogueUnchanged

\* handle_rsvp_callback: db.upsert_rsvp(event_id, user, status), the connection
\* and the statement
RsvpUpsert(t) ==
    LET r == th[t]
        res == upsert_rsvp(r.event_id, r.user, r.status, r.now)
    IN
    /\ r.pc = "rsvp_upsert"
    /\ rsvp' = res.rsvp
    /\ IF res.ok
       THEN th' = [th EXCEPT ![t] = [r EXCEPT !.pc = "rsvp_counts", !.now = 0]]
       ELSE th' = [th EXCEPT ![t] = Raise(r, "IntegrityError")]
    /\ UNCHANGED <<events, seq_events, now>>
    /\ DialogueUnchanged

\* handle_rsvp_callback: counts = db.get_rsvp_counts(event_id); the view is redrawn
RsvpCounts(t) ==
    LET r == th[t]
        counts == get_rsvp_counts(r.event_id)
    IN
    /\ r.pc = "rsvp_counts"
    /\ th' = [th EXCEPT ![t] =
            Answer(r, "RSVP set.",
                   build_event_text(r.event, r.status, counts,
                                    r.event.user_id = r.user))]
    /\ StoreUnchanged
    /\ DialogueUnchanged

(***************************************************************************)
(* The event-creation dialogue (bot.py: handle_new, handle_cancel,         *)
(* handle_event_creation, finish_event_creation)                           *)
(***************************************************************************)
\* handle_new: user_states[user] = EventCreationState(), then the first prompt
handle_new(t, user, chat_type) ==
    LET r == Begin("new", user)
        o == NewRef
    IN
    /\ Ready(t)
    /\ IF chat_type # "private"
       THEN /\ th' = [th EXCEPT ![t] =
                   Answer(r, "Please start a private chat with me to create events.",
                          NoText)]
            /\ DialogueUnchanged
       ELSE Commit([user_states EXCEPT ![user] = o],
                   [th EXCEPT ![t] = Answer(r, "prompt:title", NoText)],
                   Dropped([heap EXCEPT ![o] = EventCreationState],
                           user_states[user], "new"))
    /\ StoreUnchanged

\* handle_cancel: if user in user_states
handle_cancel(t, user) ==
    LET r == Begin("cancel", user) IN
    /\ Ready(t)
    /\ IF user_states[user] # 0
       THEN th' = [th EXCEPT ![t] = [r EXCEPT !.pc = "cancel_reset"]]
       ELSE th' = [th EXCEPT ![t] = Answer(r, "Nothing to cancel.", NoText)]
    /\ StoreUnchanged
    /\ DialogueUnchanged

\* reset_state: user_states.pop(user, None)
reset_state(user) == [user_states EXCEPT ![user] = 0]

\* handle_cancel: reset_state(user), then the confirmation
CancelReset(t) ==
    LET r == th[t] IN
    /\ r.pc = "cancel_reset"
    /\ Commit(reset_state(r.user),
              [th EXCEPT ![t] = Answer(r, "Event creation cancelled.", NoText)],
              Dropped(heap, user_states[r.user], "cancel"))
    /\ StoreUnchanged

\* the filter of handle_event_creation: msg.from_user.id in user_states
takes_message(t, user, message) ==
    /\ Ready(t)
    /\ user_states[user] # 0
    /\ th' = [th EXCEPT ![t] =
            [Begin("message", user) EXCEPT !.pc = "ec_load", !.message = message]]
    /\ StoreUnchanged
    /\ DialogueUnchanged

\* handle_event_creation takes a message, until MaxEvents events were created
\* (the handlers already running go on when MaxEvents is reached)
handle_event_creation(t, user, message) ==
    /\ seq_events < MaxEvents
    /\ takes_message(t, user, message)

\* state = user_states[message.from_user.id]
EcLoad(t) ==
    LET r == th[t] IN
    /\ r.pc = "ec_load"
    /\ Commit(user_states,
              [th EXCEPT ![t] =
                  IF user_states[r.user] = 0 THEN Raise(r, "KeyError")
                  ELSE [r EXCEPT !.pc = "ec_step", !.state = user_states[r.user]]],
              heap)
    /\ StoreUnchanged

\* the text has something besides whitespace: message.text and message.text.strip()
has_text(message) == message.text # <<>> /\ strip(message.text) # <<>>

Pad6(n) ==
    LET d == nat_str(n) IN
    [i \in 1..(6 - Len(d)) |-> "0"] \o d

\* f"{x:.6f}" of a coordinate given in millionths of a degree
Fixed6(n) ==
    LET a == IF n < 0 THEN 0 - n ELSE n IN
    (IF n < 0 THEN <<"-">> ELSE <<>>)
        \o nat_str(a \div 1000000) \o <<".">> \o Pad6(a % 1000000)

\* f"Pin: {lat:.6f}, {lon:.6f}"
PinLabel(lat, lon) ==
    <<"P", "i", "n", ":", " ">> \o Fixed6(lat) \o <<",", " ">> \o Fixed6(lon)

\* the time step's value for the trimmed text
time_value(user_text) ==
    IF user_text = <<>> THEN DEFAULT_TIME_TEXT
    ELSE IF Len(user_text) = 5 /\ user_text[3] = ":"
            /\ isdigit(remove_char(user_text, ":"))
    THEN TomorrowPrefix \o user_text
    ELSE user_text

\* handle_event_creation without its tests of the message
Validated_any(step, message) ==
    [ok |-> TRUE,
     value |-> IF step = "time" THEN time_value(strip(message.text))
               ELSE strip(message.text),
     retry |-> ""]

\* whether the step takes the message, and the value it stores
Validated(step, message) ==
    CASE step = "title" ->
            [ok |-> has_text(message), value |-> strip(message.text),
             retry |-> "Please send a short title or description for the event."]
      [] step = "location" ->
            IF message.content_type = "location"
            THEN [ok |-> TRUE, value |-> PinLabel(message.lat, message.lon),
                  retry |-> ""]
            ELSE [ok |-> has_text(message), value |-> strip(message.text),
                  retry |-> "Send a location pin or type the location."]
      [] step = "type" ->
            [ok |-> has_text(message), value |-> strip(message.text),
             retry |-> "Please tell me the event type (e.g., dinner, movie, walk)."]
      [] step = "time" ->
            [ok |-> message.content_type = "text",
             value |-> time_value(strip(message.text)),
             retry |-> "Please type the time, for example 19:30."]

\* step = state.current_step, and the step's validation of the message
EcStep(t) ==
    LET r == th[t]
        index == heap[r.state].step_index
        step == steps[index + 1]
        v == Validated(step, r.message)
    IN
    /\ r.pc = "ec_step"
    /\ Commit(user_states,
              [th EXCEPT ![t] =
                  IF index >= Len(steps) THEN Raise(r, "IndexError")
                  ELSE IF ~v.ok THEN Answer(r, v.retry, NoText)
                  ELSE [r EXCEPT !.pc = "ec_store", !.step = step, !.value = v.value]],
              heap)
    /\ StoreUnchanged

\* state.data[step] = value
EcStore(t) ==
    LET r == th[t]
        o == heap[r.state]
    IN
    /\ r.pc = "ec_store"
    /\ heap' = [heap EXCEPT ![r.state] =
            [o EXCEPT !.data = dict_set(o.data, r.step, r.value),
                      !.fed = IF o.fed < MaxFed THEN o.fed + 1 ELSE o.fed,
                      !.inputs = dict_set(o.inputs, r.step, r.message)]]
    /\ th' = [th EXCEPT ![t] =
            [r EXCEPT !.pc = IF r.step = "time" THEN "fin_title" ELSE "ec_adv_read",
                      !.message = NoMessage, !.step = "", !.value = <<>>]]
    /\ StoreUnchanged
    /\ UNCHANGED user_states

\* state.advance(): the read of self.step_index
EcAdvRead(t) ==
    LET r == th[t] IN
    /\ r.pc = "ec_adv_read"
    /\ th' = [th EXCEPT ![t] =
            [r EXCEPT !.pc = "ec_adv_write", !.tmp = heap[r.state].step_index]]
    /\ StoreUnchanged
    /\ DialogueUnchanged

\* state.advance(): the write of self.step_index
EcAdvWrite(t) ==
    LET r == th[t] IN
    /\ r.pc = "ec_adv_write"
    /\ heap' = [heap EXCEPT ![r.state].step_index = r.tmp + 1]
    /\ th' = [th EXCEPT ![t] = [r EXCEPT !.pc = "ec_prompt", !.tmp = 0]]
    /\ StoreUnchanged
    /\ UNCHANGED user_states

\* prompt_for_step(chat, state.current_step)
EcPrompt(t) ==
    LET r == th[t]
        index == heap[r.state].step_index
    IN
    /\ r.pc = "ec_prompt"
    /\ Commit(user_states,
              [th EXCEPT ![t] =
                  IF index >= Len(steps) THEN Raise(r, "IndexError")
                  ELSE Answer(r, CASE steps[index + 1] = "title" -> "prompt:title"
                                   [] steps[index + 1] = "location" -> "prompt:location"
                                   [] steps[index + 1] = "type" -> "prompt:type"
                                   [] steps[index + 1] = "time" -> "prompt:time",
                              NoText)],
              heap)
    /\ StoreUnchanged

\* the order in which finish_event_creation reads state.data for create_event
FinKey(pc) ==
    CASE pc = "fin_title" -> "title"
      [] pc = "fin_type" -> "type"
      [] pc = "fin_time" -> "time"
      [] pc = "fin_location" -> "location"

FinAfter(pc) ==
    CASE pc = "fin_title" -> "fin_type"
      [] pc = "fin_type" -> "fin_time"
      [] pc = "fin_time" -> "fin_location"
      [] pc = "fin_location" -> "fin_now"

\* finish_event_creation: state.data[key], one argument of create_event
FinRead(t) ==
    LET r == th[t]
        key == FinKey(r.pc)
        data == heap[r.state].data
    IN
    /\ r.pc \in {"fin_title", "fin_type", "fin_time", "fin_location"}
    /\ Commit(user_states,
              [th EXCEPT ![t] =
                  IF key \notin DOMAIN data THEN Raise(r, "KeyError")
                  ELSE [r EXCEPT !.pc = FinAfter(r.pc),
                                 !.args = dict_set(r.args, key, data[key])]],
              heap)
    /\ StoreUnchanged

\* finish_event_creation: db.create_event reads the clock
FinNow(t) ==
    LET r == th[t] IN
    /\ r.pc = "fin_now"
    /\ th' = [th EXCEPT ![t] = [r EXCEPT !.pc = "fin_create", !.now = now]]
    /\ StoreUnchanged
    /\ DialogueUnchanged

\* finish_event_creation: event_id = db.create_event(...), the connection and
\* the statement
FinCreate(t) ==
    LET r == th[t]
        res == create_event(r.user, r.args["title"], r.args["type"],
                            r.args["time"], r.args["location"], r.now)
    IN
    /\ r.pc = "fin_create"
    /\ events' = res.events
    /\ seq_events' = res.seq_events
    /\ heap' = [heap EXCEPT ![r.state].made = @ \cup (res.events \ events)]
    /\ th' = [th EXCEPT ![t] =
            [r EXCEPT !.pc = "fin_reset", !.event_id = res.lastrowid,
                      !.args = EmptyData, !.now = 0]]
    /\ UNCHANGED <<rsvp, now, user_states>>

\* finish_event_creation: reset_state(user_id)
FinReset(t) ==
    LET r == th[t] IN
    /\ r.pc = "fin_reset"
    /\ Commit(reset_state(r.user),
              [th EXCEPT ![t] = [r EXCEPT !.pc = "fin_get_event"]],
              heap)
    /\ StoreUnchanged

\* finish_event_creation: event = db.get_event(event_id)
FinGetEvent(t) ==
    LET r == th[t] IN
    /\ r.pc = "fin_get_event"
    /\ th' = [th EXCEPT ![t] =
            [r EXCEPT !.pc = "fin_counts", !.event = get_event(r.event_id)]]
    /\ StoreUnchanged
    /\ DialogueUnchanged

\* finish_event_creation: counts = db.get_rsvp_counts(event_id); the event is shown
\* (build_event_text subscripts event: TypeError when get_event returned None)
FinCounts(t) ==
    LET r == th[t]
        counts == get_rsvp_counts(r.event_id)
    IN
    /\ r.pc = "fin_counts"
    /\ Commit(user_states,
              [th EXCEPT ![t] =
                  IF r.event = NoEvent THEN Raise(r, "TypeError")
                  ELSE Answer(r, "Event saved! Share it with friends.",
                              build_event_text(r.event, <<>>, counts, TRUE))],
              heap)
    /\ StoreUnchanged

\* handle_my: the chat must be private
handle_my(t, user, chat_type) ==
    LET r == Begin("my", user) IN
    /\ Ready(t)
    /\ IF chat_type # "private"
       THEN th' = [th EXCEPT ![t] =
               Answer(r, "Please open a private chat to view your events.", NoText)]
       ELSE th' = [th EXCEPT ![t] = [r EXCEPT !.pc = "my_get_events"]]
    /\ StoreUnchanged
    /\ DialogueUnchanged

\* the summary handle_my sends for an event, with its View and Delete buttons
Summary(event) ==
    [title |-> escape_html(event.title), time |-> escape_html(event.time),
     type |-> escape_html(event.type),
     view |-> Payload(ViewPrefix, event.id),
     delete |-> Payload(DeletePrefix, event.id)]

\* handle_my: events = db.get_events_by_user(user), one message for each
MyGetEvents(t) ==
    LET r == th[t]
        rows == get_events_by_user(r.user)
    IN
    /\ r.pc = "my_get_events"
    /\ th' = [th EXCEPT ![t] =
            IF rows = <<>>
            THEN Answer(r, "You haven't created any events yet. Use /new to start.",
                        NoText)
            ELSE [Answer(r, "events", NoText) EXCEPT
                    !.listing = [i \in 1..Len(rows) |-> Summary(rows[i])]]]
    /\ StoreUnchanged
    /\ DialogueUnchanged

\* the handler has returned (or its exception was logged): the worker is idle again
Return(t) ==
    /\ th[t].pc \in {"done", "raised"}
    /\ th' = [th EXCEPT ![t] = Idle]
    /\ StoreUnchanged
    /\ DialogueUnchanged

\* a second passes
Tick ==
    /\ now < MaxClock
    /\ now' = now + 1
    /\ UNCHANGED <<events, seq_events, rsvp, user_states, heap, th>>

(***************************************************************************)
(* The updates the gateway delivers                                        *)
(***************************************************************************)
ChatTypes == {"private", "group"}

StartCommand == <<"/", "s", "t", "a", "r", "t">>

\* the text Telegram sends when a link with ?start=<param> is opened
StartText(param) == StartCommand \o <<" ">> \o param

\* the start parameter of a link: what follows "?start="
StartParam(link) ==
    LET i == find_char(link, "=", 1) IN SubSeq(link, i + 1, Len(link))

StartTexts ==
    {StartCommand, StartText(<<"j", "o", "i", "n", "_", "x">>)}
        \cup {StartText(StartParam(get_invite_link(n))) : n \in EventIds}

Payloads ==
    {Payload(ViewPrefix, n) : n \in EventIds}
        \cup {Payload(DeletePrefix, n) : n \in EventIds}
        \cup {RsvpPayload(n, s) : n \in EventIds, s \in Statuses}
        \cup {ViewPrefix \o <<"x">>,
              Payload(ViewPrefix, 1) \o <<":", "2">>,
              DeletePrefix,
              RsvpPrefix \o <<"1">>,
              RsvpPrefix \o <<"x", ":">> \o YES,
              RsvpPayload(1, <<"Y", "E", "S">>),
              RsvpPayload(1, YES) \o <<":">>,
              <<"n", "o", "o", "p">>}

TextMessage(text) == [content_type |-> "text", text |-> text, lat |-> 0, lon |-> 0]
\* a location message has no text
LocationMessage(lat, lon) ==
    [content_type |-> "location", text |-> <<>>, lat |-> lat, lon |-> lon]

Messages ==
    {TextMessage(<<" ">>), TextMessage(<<" ", "a">>), LocationMessage(1500000, -20)}

Handlers(t) ==
    \/ JoinGetEvent(t) \/ JoinGetRsvp(t) \/ JoinNow(t) \/ JoinUpsert(t) \/ JoinCounts(t)
    \/ ViewGetEvent(t) \/ ViewAccess(t) \/ ViewCounts(t) \/ ViewGetRsvp(t)
    \/ DeleteGetEvent(t) \/ DeleteDelete(t)
    \/ RsvpGetEvent(t) \/ RsvpAccess(t) \/ RsvpNow(t) \/ RsvpUpsert(t) \/ RsvpCounts(t)
    \/ CancelReset(t)
    \/ EcLoad(t) \/ EcStep(t) \/ EcStore(t) \/ EcAdvRead(t) \/ EcAdvWrite(t)
    \/ EcPrompt(t) \/ FinRead(t) \/ FinNow(t) \/ FinCreate(t) \/ FinReset(t) \/ FinGetEvent(t)
    \/ FinCounts(t) \/ MyGetEvents(t) \/ Return(t)

\* worker t takes an update, or goes one step on in its handler
Work(t) ==
    \/ \E u \in Users, c \in ChatTypes, x \in StartTexts : handle_start(t, u, c, x)
    \/ \E u \in Users, d \in Payloads : handle_callbacks(t, u, d)
    \/ \E u \in Users, c \in ChatTypes : handle_new(t, u, c)
    \/ \E u \in Users : handle_cancel(t, u)
    \/ \E u \in Users, c \in ChatTypes : handle_my(t, u, c)
    \/ \E u \in Users, m \in Messages : handle_event_creation(t, u, m)
    \/ Handlers(t)

\* the whole bot, and the clock
Next == Tick \/ \E t \in Threads : Work(t)

Spec == Init /\ [][Next]_vars

(***************************************************************************)
(* The parts of the bot that are explored exhaustively.  Each is Spec with *)
(* the gateway delivering fewer kinds of update.                           *)
(***************************************************************************)
\* the store of an earlier run of the bot: events created by finished dialogues
\* (inputs " a", " a", " a", " "), no dialogue in progress, every worker idle
StoredEvents(owners) ==
    {[id |-> i, user_id |-> owners[i], title |-> <<"a">>, type |-> <<"a">>,
      time |-> DEFAULT_TIME_TEXT, location |-> <<"a">>, created_at |-> 0] :
        i \in 1..Len(owners)}

InitStore ==
    /\ \E n \in 0..MaxStored : \E owners \in [1..n -> Users] :
          \* the users being alike, the first event is the first user's
          /\ n > 0 => owners[1] = 1
          /\ events = StoredEvents(owners)
          /\ seq_events = n
    /\ rsvp = EmptyBag
    /\ now = 0
    /\ user_states = [u \in Users |-> 0]
    /\ heap = [o \in Refs |-> Free]
    /\ th = [t \in Threads |-> Idle]

StoreHandlers(t) ==
    \/ JoinGetEvent(t) \/ JoinGetRsvp(t) \/ JoinNow(t) \/ JoinUpsert(t) \/ JoinCounts(t)
    \/ ViewGetEvent(t) \/ ViewAccess(t) \/ ViewCounts(t) \/ ViewGetRsvp(t)
    \/ DeleteGetEvent(t) \/ DeleteDelete(t)
    \/ RsvpGetEvent(t) \/ RsvpAccess(t) \/ RsvpNow(t) \/ RsvpUpsert(t) \/ RsvpCounts(t)
    \/ Return(t)

\* invite links and buttons, on both workers
NextStore ==
    \E t \in Threads :
        \/ \E u \in Users, c \in ChatTypes, x \in StartTexts : handle_start(t, u, c, x)
        \/ \E u \in Users, d \in Payloads : handle_callbacks(t, u, d)
        \/ StoreHandlers(t)

SpecStore == InitStore /\ [][NextStore]_vars

\* invite links, buttons, /new and /cancel, handled one at a time, and the clock
NextButtons ==
    \/ Tick
    \/ \E u \in Users, c \in ChatTypes, x \in StartTexts : handle_start(1, u, c, x)
    \/ \E u \in Users, d \in Payloads : handle_callbacks(1, u, d)
    \/ \E u \in Users, c \in ChatTypes : handle_new(1, u, c)
    \/ \E u \in Users : handle_cancel(1, u)
    \/ CancelReset(1)
    \/ StoreHandlers(1)

SpecButtons == InitStore /\ [][NextButtons]_vars

DialogueHandlers(t) ==
    \/ CancelReset(t)
    \/ EcLoad(t) \/ EcStep(t) \/ EcStore(t) \/ EcAdvRead(t) \/ EcAdvWrite(t)
    \/ EcPrompt(t) \/ FinRead(t) \/ FinNow(t) \/ FinCreate(t) \/ FinReset(t) \/ FinGetEvent(t)
    \/ FinCounts(t) \/ Return(t)

\* no other user has a dialogue or a handler running
Alone(u) ==
    \A v \in Users \ {u} :
        user_states[v] = 0 /\ \A t \in Threads : th[t].user # v

\* the user whose dialogues are explored, the users being alike
DialogueUsers == {1}

\* the messages that step takes: a text with a blank to trim, and a pin
TakenMessages == {m \in Messages : m.content_type = "location" \/ has_text(m)}

\* the dialogue on both workers, with /new and /cancel at any moment and the
\* messages every step but the last takes
NextDialogue ==
    \E t \in Threads :
        \/ \E u \in DialogueUsers, c \in ChatTypes : Alone(u) /\ handle_new(t, u, c)
        \/ \E u \in DialogueUsers : Alone(u) /\ handle_cancel(t, u)
        \/ \E u \in DialogueUsers, m \in TakenMessages :
              Alone(u) /\ handle_event_creation(t, u, m)
        \/ DialogueHandlers(t)

SpecDialogue == Init /\ [][NextDialogue]_vars

\* the dialogue on both workers with every message, blank text included, a
\* dialogue being started when the user has none
NextRetry ==
    \E t \in Threads :
        \/ \E u \in DialogueUsers :
              user_states[u] = 0 /\ Alone(u) /\ handle_new(t, u, "private")
        \/ \E u \in DialogueUsers, m \in Messages :
              Alone(u) /\ handle_event_creation(t, u, m)
        \/ EcLoad(t) \/ EcStep(t) \/ EcStore(t) \/ EcAdvRead(t) \/ EcAdvWrite(t)
        \/ EcPrompt(t) \/ FinRead(t) \/ FinNow(t) \/ FinCreate(t) \/ FinReset(t)
        \/ FinGetEvent(t) \/ FinCounts(t) \/ Return(t)

SpecRetry == Init /\ [][NextRetry]_vars

\* the most events the store holds when /my is looked at
MaxListed == 3

\* events created one after the other, each stamped with the clock its
\* create_event read
ListedEvents(owners, stamps) ==
    {[id |-> i, user_id |-> owners[i], title |-> <<"a">>, type |-> <<"a">>,
      time |-> DEFAULT_TIME_TEXT, location |-> <<"a">>, created_at |-> stamps[i]] :
        i \in 1..Len(owners)}

\* the store after up to MaxListed dialogues, seconds passing between some.
\* create_event reads the clock before its connection opens: an insert may
\* carry a stamp older than that of an earlier insert, when its worker read the
\* clock first and the other worker went from its clock to its insert in
\* between.  There being two workers, one such insert at most is under way
\* during any other.
InitList ==
    /\ \E n \in 0..MaxListed :
       \E owners \in [1..n -> Users], stamps \in [1..n -> 0..MaxClock] :
          /\ \A i \in 1..n :
                Cardinality({j \in (i + 1)..n : stamps[j] < stamps[i]})
                    < Cardinality(Threads)
          /\ events = ListedEvents(owners, stamps)
          /\ seq_events = n
          /\ now \in 0..MaxClock
          /\ \A i \in 1..n : stamps[i] <= now
    /\ rsvp = EmptyBag
    /\ user_states = [u \in Users |-> 0]
    /\ heap = [o \in Refs |-> Free]
    /\ th = [t \in Threads |-> Idle]

\* /my and the Delete buttons it sends, handled one at a time, and the clock
NextList ==
    \/ Tick
    \/ \E u \in Users, c \in ChatTypes : handle_my(1, u, c)
    \/ MyGetEvents(1)
    \/ \E u \in Users, n \in 1..MaxListed :
          handle_callbacks(1, u, Payload(DeletePrefix, n))
    \/ DeleteGetEvent(1) \/ DeleteDelete(1)
    \/ Return(1)

SpecList == InitList /\ [][NextList]_vars

\* the most events created while stale buttons are pressed
MaxIds == 2

\* no dialogue handler is at work, and no user but u has a conversation
OneDialogue(u) ==
    /\ \A t \in Threads : th[t].handler \notin {"new", "message"}
    /\ \A v \in Users \ {u} : user_states[v] = 0

\* the first user's dialogues handled one update at a time, beside the invite link of the first
\* event and the View and Delete buttons of every id on the other worker
NextIdentity ==
    \E t \in Threads :
        \/ \E u \in DialogueUsers : OneDialogue(u) /\ handle_new(t, u, "private")
        \/ \E u \in DialogueUsers :
              /\ OneDialogue(u)
              /\ seq_events < MaxIds
              /\ takes_message(t, u, TextMessage(<<" ", "a">>))
        \/ \E u \in Users :
              handle_start(t, u, "private", StartText(StartParam(get_invite_link(1))))
        \/ \E u \in Users, n \in 1..MaxIds :
              handle_callbacks(t, u, Payload(ViewPrefix, n))
        \/ \E u \in Users, n \in 1..MaxIds :
              handle_callbacks(t, u, Payload(DeletePrefix, n))
        \/ JoinGetEvent(t) \/ JoinGetRsvp(t) \/ JoinNow(t) \/ JoinUpsert(t) \/ JoinCounts(t)
        \/ EcLoad(t) \/ EcStep(t) \/ EcStore(t) \/ EcAdvRead(t) \/ EcAdvWrite(t)
        \/ EcPrompt(t) \/ FinRead(t) \/ FinNow(t) \/ FinCreate(t) \/ FinReset(t)
        \/ FinGetEvent(t) \/ FinCounts(t)
        \/ ViewGetEvent(t) \/ ViewAccess(t) \/ ViewCounts(t) \/ ViewGetRsvp(t)
        \/ DeleteGetEvent(t) \/ DeleteDelete(t)
        \/ Return(t)

SpecIdentity == Init /\ [][NextIdentity]_vars

\* the longest text sent at the time step
MaxTimeLen == 5

TimeAlphabet == {"1", ":", "a", " "}

\* every text of the alphabet up to MaxTimeLen characters, and a time with
\* blanks around it
TimeTexts ==
    UNION {[1..n -> TimeAlphabet] : n \in 0..MaxTimeLen}
        \cup {<<" ", "1", "1", ":", "1", "1", " ">>}

\* user 1 has sent /new and " a" three times: the dialogue is at the time step
InitTime ==
    /\ events = {}
    /\ seq_events = 0
    /\ rsvp = EmptyBag
    /\ now = 0
    /\ user_states = [u \in Users |-> IF u = 1 THEN 1 ELSE 0]
    /\ heap = [o \in Refs |->
                IF o = 1
                THEN [EventCreationState EXCEPT
                        !.step_index = 3,
                        !.data = [k \in {"title", "location", "type"} |-> <<"a">>],
                        !.fed = 3,
                        !.inputs = [k \in {"title", "location", "type"} |->
                                        TextMessage(<<" ", "a">>)]]
                ELSE Free]
    /\ th = [t \in Threads |-> Idle]

\* the time step of user 1's dialogue, on one worker
NextTime ==
    \/ \E x \in TimeTexts : handle_event_creation(1, 1, TextMessage(x))
    \/ EcLoad(1) \/ EcStep(1) \/ EcStore(1)
    \/ FinRead(1) \/ FinNow(1) \/ FinCreate(1) \/ FinReset(1) \/ FinGetEvent(1) \/ FinCounts(1)
    \/ Return(1)

SpecTime == InitTime /\ [][NextTime]_vars

(***************************************************************************)
(* Claims                                                                  *)
(***************************************************************************)
\* the objects of dialogues in progress
Live == {o \in Refs : heap[o] # Free}

\* the dialogue on object o took exactly one input at each step
FedFour(o) == heap[o].fed = 4 /\ DOMAIN heap[o].inputs = {"title", "location", "type", "time"}

\* what the four inputs of such a dialogue amount to, step by step
ExpectedTitle(o) == strip(heap[o].inputs["title"].text)
ExpectedLocation(o) ==
    LET m == heap[o].inputs["location"] IN
    IF m.content_type = "location" THEN PinLabel(m.lat, m.lon) ELSE strip(m.text)
ExpectedType(o) == strip(heap[o].inputs["type"].text)
ExpectedTime(o) == time_value(strip(heap[o].inputs["time"].text))

\* the handler on object o has come back from db.create_event
Created(o) ==
    \E t \in Threads :
        th[t].state = o /\ th[t].pc \in {"fin_reset", "fin_get_event", "fin_counts"}

C1_State ==
    \A o \in Live :
        /\ heap[o].made # {} => "time" \in DOMAIN heap[o].inputs
        /\ FedFour(o) =>
              /\ Cardinality(heap[o].made) <= 1
              /\ heap[o].made \subseteq events
              /\ Created(o) => Cardinality(heap[o].made) = 1
              /\ \A e \in heap[o].made :
                    /\ \A t \in Threads : th[t].state = o => e.user_id = th[t].user
                    /\ e.title = ExpectedTitle(o)
                    /\ e.location = ExpectedLocation(o)
                    /\ e.type = ExpectedType(o)
                    /\ e.time = ExpectedTime(o)

C1_Step ==
    events' # events =>
        \E t \in Threads :
            /\ th[t].pc = "fin_create"
            /\ "time" \in DOMAIN heap[th[t].state].inputs
            /\ \E e \in events' : e \notin events /\ events' = events \cup {e}

\* C1: a dialogue that took one valid input at each of its four steps persists
\* exactly one event, owned by its user, whose title, location, type and time
\* are the trimmed or validated inputs of those steps; and no event is persisted
\* except by a dialogue whose time step has been accepted.
C1_DialoguePersistsOneEvent == [](C1_State) /\ [][C1_Step]_vars

\* a dialogue with four accepted inputs has come back from db.create_event
C1_Witness ==
    \E o \in Live :
        /\ FedFour(o) /\ Created(o) /\ Cardinality(heap[o].made) = 1
        /\ heap[o].inputs["location"].content_type = "location"
        /\ heap[o].inputs["title"].text # ExpectedTitle(o)

\* worker t takes the step: every step of a handler moves its worker on
Steps(t) == th'[t].pc # th[t].pc

\* the rows of table rsvp for one (event, user) pair, counted with repetition
PairCopies(event_id, user_id) ==
    BagCardinality(Restrict(rsvp, LAMBDA r : r.event_id = event_id /\ r.user_id = user_id))

\* C2: the store holds at most one RSVP row for each (event, responder) pair.
C2_UniqueRsvpPerPair ==
    \A r \in RsvpRows : PairCopies(r.event_id, r.user_id) = 1

\* both workers have come back from an upsert for the same (event, user) pair
C2_Witness ==
    /\ \A t \in Threads : th[t].pc \in {"join_counts", "rsvp_counts"}
    /\ th[1].user = th[2].user /\ th[1].event_id = th[2].event_id
    /\ PairCopies(th[1].event_id, th[1].user) = 1

\* worker t's rsvp handler goes through its upsert
RsvpWrites(t) == th[t].pc = "rsvp_upsert" /\ th'[t].pc = "rsvp_counts"

RowsOfEvent(event_id) == BagCardinality(Restrict(rsvp, LAMBDA r : r.event_id = event_id))

C3_Step(t) ==
    LET id == th[t].event_id
        user == th[t].user
        old == get_rsvp(id, user).status
        new == th[t].status
        counts == get_rsvp_counts(id)
    IN
    (RsvpWrites(t) /\ RsvpOfPair(id, user) # {}) =>
        /\ RowsOfEvent(id)' = RowsOfEvent(id)
        /\ PairCopies(id, user)' = 1
        /\ get_rsvp(id, user)'.status = new
        /\ get_rsvp_counts(id)' =
              IF old = new THEN counts
              ELSE [counts EXCEPT ![old] = @ - 1, ![new] = @ + 1]

\* C3: an rsvp action by a responder who already has a row updates the row in
\* place: the event keeps its number of rows, the stored status becomes the one
\* chosen, and the counts move one unit from the old status to the new one.
C3_UpsertUpdatesInPlace == [][\A t \in Threads : C3_Step(t)]_vars

\* an invitee, who passes the gate only with a row, has rewritten that row
C3_Witness ==
    \E t \in Threads :
        /\ th[t].pc = "rsvp_counts"
        /\ th[t].event.user_id # th[t].user
        /\ th[t].status = NO
        /\ get_rsvp(th[t].event_id, th[t].user).status = NO
        /\ get_rsvp_counts(th[t].event_id)[NO] = 1
        /\ get_rsvp_counts(th[t].event_id)[MAYBE] = 0

Responders(event_id) == {r.user_id : r \in RsvpOf(event_id)}

\* C4: for every event id, the counts have exactly the keys yes, no and maybe,
\* and they add up to the number of distinct responders of the event.
C4_CountsCoverResponders ==
    \A id \in EventIds :
        LET counts == get_rsvp_counts(id) IN
        /\ DOMAIN counts = Statuses
        /\ counts[YES] + counts[NO] + counts[MAYBE] = Cardinality(Responders(id))

\* an event with two responders of different statuses, the third status at 0
C4_Witness ==
    \E id \in EventIds :
        /\ Cardinality(Responders(id)) = 2
        /\ get_rsvp_counts(id)[YES] = 1
        /\ get_rsvp_counts(id)[MAYBE] = 1
        /\ get_rsvp_counts(id)[NO] = 0

\* worker t's delete handler removes the event
Deletes(t) ==
    /\ th[t].pc = "delete_delete"
    /\ th'[t].pc = "done"
    /\ th'[t].reply.msg = "Event deleted."

C5_Step(t) ==
    Deletes(t) =>
        /\ \A e \in events' : e.id # th[t].event_id
        /\ \A u \in Users : get_rsvp(th[t].event_id, u)' = NoRsvp

\* C5: every RSVP row references an event that exists; a successful delete
\* removes the event and all its RSVP rows in the same step, whatever join or
\* rsvp handler runs beside it.
C5_RsvpReferencesEvent ==
    /\ [](\A r \in RsvpRows : \E e \in events : e.id = r.event_id)
    /\ [][\A t \in Threads : C5_Step(t)]_vars

\* an event was deleted while the other worker was about to write an RSVP for
\* it, and that write found no event
C5_Witness ==
    \E t, w \in Threads :
        /\ th[t].pc = "done" /\ th[t].reply.msg = "Event deleted."
        /\ th[w].pc = "raised" /\ th[w].error = "IntegrityError"
        /\ th[w].event_id = th[t].event_id
        /\ RsvpOf(th[t].event_id) = {}

C6_Step(t) ==
    LET e == get_event(th[t].event_id) IN
    (Steps(t) /\ th[t].pc = "delete_get_event" /\ e # NoEvent /\ e.user_id # th[t].user) =>
        /\ th'[t].pc = "done"
        /\ th'[t].reply.msg = "You can only delete your own events."
        /\ UNCHANGED <<events, rsvp>>

\* C6: a delete requested by a user who is not the organizer removes nothing:
\* the store's delete_event returns false and leaves events and RSVP rows as
\* they are, the delete button is denied, and an event leaves the store only
\* through the delete handler of its organizer.
C6_OnlyOrganizerDeletes ==
    /\ [](\A e \in events : \A u \in Users \ {e.user_id} :
             delete_event(e.id, u) = [deleted |-> FALSE, events |-> events, rsvp |-> rsvp])
    /\ [][/\ \A t \in Threads : C6_Step(t)
          /\ \A e \in events : e \notin events' =>
               \E t \in Threads : Steps(t) /\ th[t].pc = "delete_delete" /\ th[t].user = e.user_id
                                    /\ th[t].event_id = e.id]_vars

\* a user was denied the deletion of another user's event, which has RSVP rows
C6_Witness ==
    \E t \in Threads : \E e \in events :
        /\ th[t].pc = "done" /\ th[t].handler = "delete"
        /\ th[t].reply.msg = "You can only delete your own events."
        /\ th[t].event_id = e.id /\ th[t].user # e.user_id
        /\ RsvpOf(e.id) # {}

\* C7: opening an invite link writes an RSVP row only when the invoker has
\* none: a join never changes the row the invoker already has.
C7_JoinKeepsExistingRsvp ==
    [][\A t \in Threads :
          (Steps(t) /\ th[t].pc = "join_upsert" /\ rsvp' # rsvp) =>
              RsvpOfPair(th[t].event_id, th[t].user) = {}]_vars

\* the actor is the organizer of the event in hand, or has an RSVP row for it
Admitted(t) ==
    \/ th[t].event.user_id = th[t].user
    \/ RsvpOfPair(th[t].event_id, th[t].user) # {}

C8_Step(t) ==
    /\ (th[t].pc = "view_access" /\ th'[t].pc = "view_counts") => Admitted(t)
    /\ (th[t].pc = "rsvp_access" /\ th'[t].pc = "rsvp_upsert") => Admitted(t)
    /\ (Steps(t) /\ th[t].pc = "rsvp_upsert" /\ rsvp' # rsvp) => Admitted(t)
    /\ (Steps(t) /\ th[t].pc \in {"view_access", "rsvp_access"} /\ ~Admitted(t)) =>
          /\ th'[t].pc = "done"
          /\ th'[t].reply.msg = IF th[t].pc = "view_access"
                                THEN "You do not have access to this event."
                                ELSE "Join via the invite link first."
          /\ UNCHANGED <<events, seq_events, rsvp>>

\* C8: a view or rsvp button is served only to the organizer or to a user with
\* an RSVP row for the event; anyone else is denied and the store is unchanged.
C8_JoinGate == [][\A t \in Threads : C8_Step(t)]_vars

\* a user without a row was turned away from an existing event of someone else
C8_Witness ==
    \E t \in Threads : \E e \in events :
        /\ th[t].pc = "done" /\ th[t].handler = "rsvp"
        /\ th[t].reply.msg = "Join via the invite link first."
        /\ th[t].event_id = e.id
        /\ e.user_id # th[t].user
        /\ RsvpOfPair(e.id, th[t].user) = {}

\* C9: a delete button whose event does not exist is answered "not found".
C9_DeleteOfMissingEventNotFound ==
    [][\A t \in Threads :
          (Steps(t) /\ th[t].pc = "delete_get_event" /\ get_event(th[t].event_id) = NoEvent) =>
              th'[t].reply.msg = "Event not found."]_vars

\* the text is one Python's int() accepts
IsInt(text) == int_parse(text).ok

\* a payload the buttons never carry: an id that is no integer, a wrong number
\* of fields, or a status outside yes / no / maybe
Malformed(data) ==
    IF startswith(data, ViewPrefix) \/ startswith(data, DeletePrefix)
    THEN ~IsInt(split_once(data, ":")[2])
    ELSE IF startswith(data, RsvpPrefix)
    THEN LET parts == split_all(data, ":") IN
         \/ Len(parts) # 3
         \/ ~IsInt(parts[2])
         \/ parts[3] \notin Statuses
    ELSE FALSE

Rejections == {"Invalid event id.", "Invalid RSVP data.", "Unknown option."}

C10_Step ==
    \A u \in Users : \A d \in Payloads :
        (Malformed(d) /\ handle_callbacks(1, u, d)) =>
            /\ th'[1].pc = "done"
            /\ th'[1].reply.msg \in Rejections
            /\ UNCHANGED <<events, seq_events, rsvp, user_states, heap>>

\* C10: a button payload with a non-integer id, a wrong number of fields or a
\* status outside yes / no / maybe is answered with an invalid / unknown message
\* and changes neither the store nor any conversation; every stored RSVP status
\* is one of yes, no, maybe.
C10_MalformedPayloadRejected ==
    /\ [](\A r \in RsvpRows : r.status \in Statuses)
    /\ [][C10_Step]_vars

\* a status in capitals was refused to a user who has a dialogue open, with an
\* RSVP row in the store
C10_Witness ==
    /\ th[1].pc = "done" /\ th[1].handler = "rsvp"
    /\ th[1].reply.msg = "Unknown option."
    /\ user_states[th[1].user] # 0
    /\ heap[user_states[th[1].user]].step_index = 0
    /\ RsvpRows # {}

\* C11: once /cancel has taken a conversation out of user_states and reported
\* it, no event is persisted from that conversation.
C11_CancelSavesNothing ==
    [][\A t \in Threads :
          (Steps(t) /\ th[t].pc = "fin_create") =>
              heap[th[t].state].dropped # "cancel"]_vars

\* worker t takes /new of a private chat and prompts for the title
StartsDialogue(t) ==
    /\ th[t].pc = "idle"
    /\ th'[t].handler = "new"
    /\ th'[t].reply.msg = "prompt:title"

\* C12: /new leaves its user with one conversation, at step title and with no
\* collected field, and no event is persisted from a conversation that /new
\* has replaced.
C12_NewDiscardsUnfinished ==
    [][\A t \in Threads :
          /\ StartsDialogue(t) =>
                /\ user_states'[th'[t].user] # 0
                /\ heap'[user_states'[th'[t].user]].step_index = 0
                /\ heap'[user_states'[th'[t].user]].data = EmptyData
          /\ (Steps(t) /\ th[t].pc = "fin_create") =>
                heap[th[t].state].dropped # "new"]_vars

\* an input the step refuses: text that is empty or blank at title, location or
\* type; anything but text at time
InvalidAt(step, message) ==
    \/ /\ step \in {"title", "location", "type"}
       /\ message.content_type = "text"
       /\ \A i \in 1..Len(message.text) : message.text[i] \in Whitespace
    \/ /\ step = "time"
       /\ message.content_type # "text"

RetryOf(step) ==
    CASE step = "title" -> "Please send a short title or description for the event."
      [] step = "location" -> "Send a location pin or type the location."
      [] step = "type" -> "Please tell me the event type (e.g., dinner, movie, walk)."
      [] step = "time" -> "Please type the time, for example 19:30."

C13_Step(t) ==
    LET index == heap[th[t].state].step_index IN
    (/\ Steps(t)
     /\ th[t].pc = "ec_step"
     /\ index \in 0..3
     /\ InvalidAt(steps[index + 1], th[t].message)) =>
        /\ th'[t].pc = "done"
        /\ th'[t].reply.msg = RetryOf(steps[index + 1])
        /\ UNCHANGED <<events, seq_events, rsvp, user_states>>
        /\ \A u \in Users :
              user_states[u] # 0 =>
                  /\ heap'[user_states[u]].step_index = heap[user_states[u]].step_index
                  /\ heap'[user_states[u]].data = heap[user_states[u]].data

\* C13: an input that fails the validation of the current step (blank text at
\* title, location or type; a message that is not text at time) leaves every
\* conversation at its step with its collected fields, persists nothing, and is
\* answered with the prompt of that same step.
C13_InvalidInputChangesNothing == [][\A t \in Threads : C13_Step(t)]_vars

\* a location pin sent at the time step was refused, the conversation still at
\* the time step with its three fields
C13_Witness ==
    \E t \in Threads :
        /\ th[t].pc = "done"
        /\ th[t].reply.msg = "Please type the time, for example 19:30."
        /\ user_states[th[t].user] # 0
        /\ heap[user_states[th[t].user]].step_index = 3
        /\ DOMAIN heap[user_states[th[t].user]].data = {"title", "location", "type"}
        /\ events = {}

\* two digits, a colon, two digits
StrictHHMM(x) ==
    /\ Len(x) = 5
    /\ x[3] = ":"
    /\ \A i \in {1, 2, 4, 5} : x[i] \in Digits

\* C14: the time stored for an input is "Tomorrow 19:00" when the trimmed input
\* is empty, "Tomorrow " and the trimmed input when that is two digits, a colon
\* and two digits, and the trimmed input itself in every other case.
C14_TimeParsing ==
    \A o \in Live :
        "time" \in DOMAIN heap[o].data =>
            LET x == strip(heap[o].inputs["time"].text) IN
            heap[o].data["time"] =
                IF x = <<>> THEN DEFAULT_TIME_TEXT
                ELSE IF StrictHHMM(x) THEN TomorrowPrefix \o x
                ELSE x

\* the state the time step is explored from is one the dialogue reaches
InitTimeReached ==
    /\ user_states[1] = 1
    /\ heap[1].step_index = 3
    /\ heap[1].data = [k \in {"title", "location", "type"} |-> <<"a">>]
    /\ heap[1].inputs = [k \in {"title", "location", "type"} |-> TextMessage(<<" ", "a">>)]
    /\ heap[1].fed = 3
    /\ events = {} /\ seq_events = 0
    /\ \A t \in Threads : th[t] = Idle

\* the event a summary's View button names
ListedId(summary) == int_parse(split_once(summary.view, ":")[2]).value

\* C15: the list /my answers with holds exactly the existing events of its
\* user, each once, an event created later (of larger id) before one created
\* earlier.
C15_ListNewestFirst ==
    \A t \in Threads :
        (th[t].pc = "done" /\ th[t].handler = "my" /\ th[t].reply.msg = "events") =>
            LET rows == th[t].listing
                owned == {e \in events : e.user_id = th[t].user}
            IN
            /\ {ListedId(rows[i]) : i \in 1..Len(rows)} = {e.id : e \in owned}
            /\ Len(rows) = Cardinality(owned)
            /\ \A i, j \in 1..Len(rows) : i < j => ListedId(rows[i]) > ListedId(rows[j])

\* the largest event id whose link is built and parsed back
MaxLinkId == 12

\* what Telegram sends when the link built for event n is opened
LinkText(n) == StartText(StartParam(get_invite_link(n)))

\* handle_start's reading of the start parameter of the link built for n
LinkParsed(n) ==
    LET parts == split_ws(LinkText(n)) IN
    IF Len(parts) > 1 /\ startswith(parts[2], StartParamPrefix)
    THEN int_parse(split_once(parts[2], "_")[2])
    ELSE [ok |-> FALSE, value |-> 0]

\* C16: the start parameter of the invite link built for event n parses back to
\* n, and opening the link in a private chat runs the join handler for event n.
C16_InviteLinkRoundTrip ==
    /\ [](\A n \in 1..MaxLinkId : LinkParsed(n) = [ok |-> TRUE, value |-> n])
    /\ [][\A u \in Users : \A n \in EventIds :
             handle_start(1, u, "private", LinkText(n)) =>
                 /\ th'[1].pc = "join_get_event"
                 /\ th'[1].event_id = n]_vars

\* the link of an event was opened and the join handler has shown that event
C16_Witness ==
    /\ th[1].pc = "done" /\ th[1].handler = "start"
    /\ th[1].reply.msg = "You're invited to an event for tomorrow!"
    /\ \E e \in events : e.id = th[1].event_id /\ th[1].reply.text.title = e.title

\* no handler of user u is at work
Quiet(u) == \A t \in Threads : th[t].user = u => th[t].pc \in {"done", "raised"}

\* C17: whenever no handler of a user is at work, the user's conversation has
\* advanced once for each input it accepted, is at one of the four steps, and
\* has collected exactly the fields of the steps before its step.
C17_ConversationStateSafe ==
    \A u \in Users :
        (user_states[u] # 0 /\ Quiet(u)) =>
            LET o == heap[user_states[u]] IN
            /\ o.step_index \in 0..3
            /\ o.step_index = o.fed
            /\ DOMAIN o.data = {steps[i] : i \in 1..o.step_index}

\* C18: a join or rsvp handler never ends with an uncaught store error.
C18_NoStoreErrorEscapes ==
    \A t \in Threads :
        th[t].handler \in {"start", "rsvp"} => th[t].pc # "raised"

\* the count a rendered view shows for a status
ShownCount(text, status) ==
    CASE status = YES -> text.yes
      [] status = NO -> text.no
      [] status = MAYBE -> text.maybe

\* (the event not having been deleted meanwhile, the other worker being on an
\* rsvp action too)
C19_Step(t) ==
    LET shown == th'[t].reply.text
        stored == get_rsvp(th[t].event_id, th[t].user)
    IN
    (/\ Steps(t)
     /\ th[t].pc = "rsvp_counts"
     /\ stored # NoRsvp
     /\ \A w \in Threads \ {t} : th[w].handler = "rsvp") =>
        /\ shown.status_text = title_case(stored.status)
        /\ ShownCount(shown, th[t].status) >= 1

\* C19: the view an rsvp action draws shows, as the actor's status, the status
\* the store holds for the actor when the counts are read, and a count of at
\* least 1 for it.
C19_RsvpViewConsistent == [][\A t \in Threads : C19_Step(t)]_vars

\* the organizer of event id, 0 when there is no such event
OrganizerOf(id) == get_event(id).user_id

C20_Step ==
    \A id \in EventIds : \A u \in Users :
        (/\ RsvpOfPair(id, u) = {}
         /\ RsvpOfPair(id, u)' # {}
         /\ OrganizerOf(id) # u) =>
            /\ \E t \in Threads :
                  /\ Steps(t)
                  /\ th[t].handler = "start"
                  /\ th[t].pc = "join_upsert"
                  /\ th[t].user = u
                  /\ th[t].event_id = id
            /\ get_rsvp(id, u)'.status = MAYBE

\* C20: every RSVP row is of an existing event, and the first row of a user who
\* is not the organizer is written by the join handler, run for that user from
\* the event's invite link, with status maybe; an rsvp button never writes it.
C20_RsvpProvenance ==
    /\ [](\A r \in RsvpRows : OrganizerOf(r.event_id) # 0)
    /\ [][C20_Step]_vars

\* an invitee came through the link and then answered no with the button
C20_Witness ==
    \E t \in Threads :
        /\ th[t].pc = "done" /\ th[t].handler = "rsvp"
        /\ th[t].reply.msg = "RSVP set."
        /\ OrganizerOf(th[t].event_id) \notin {0, th[t].user}
        /\ get_rsvp(th[t].event_id, th[t].user).status = NO

C21_Step ==
    /\ seq_events' >= seq_events
    /\ \A e \in events' \ events : e.id > seq_events /\ e.id <= seq_events'
    /\ \A e \in events : \A x \in events' : x.id = e.id => x = e

\* C21: an id given by create_event is larger than every id given before, those
\* of deleted events included; an existing event keeps its organizer and
\* fields; and the event a handler has in hand is, as long as the store holds
\* an event of that id, that same event.
C21_EventIdentityStable ==
    /\ [](\A e \in events : e.id \in 1..seq_events)
    /\ [](\A t \in Threads :
             th[t].event # NoEvent =>
                 \A e \in events : e.id = th[t].event.id => e = th[t].event)
    /\ [][C21_Step]_vars

\* a handler still has event 1 in hand, which was deleted, and the store holds
\* the event created after it
C21_Witness ==
    \E t \in Threads :
        /\ th[t].event.id = 1
        /\ \A e \in events : e.id = 2
        /\ events # {}
        /\ seq_events = 2

====
